---- MODULE Spec2Model ----
(***************************************************************************)
(* Model of the document pipeline wrappers: LangchainSplitters             *)
(* (src/splitters.py), LangChainLoader (src/loaders.py),                   *)
(* PineconeInsertRetrieval (src/pinecon.py) and QdrantInsertRetrievalAll   *)
(* (src/qdrant.py).  The third-party libraries and the remote services are *)
(* the environment: their answers are nondeterministic choices.            *)
(***************************************************************************)
EXTENDS Integers, Sequences, FiniteSets, TLC

VARIABLES
    \* ---- LangchainSplitters ----
    docs,              \* self.docs, set by __init__
    sp_op,             \* the splitter method being executed ("none" when idle)
    sp_pc,             \* "idle" | "loop" | "done"
    headers,           \* headers_to_split_on of the running html_splitter call
    doc_index,         \* number of documents of self.docs already processed
    all_chunked_docs,  \* the local list all_chunked_docs
    origin,            \* history: for each entry of all_chunked_docs, where it came from
    split_memo,        \* history: what split_text answered in this call, per text
    sp_result,         \* the returned list (meaningful when sp_pc = "done")
    sp_raised,         \* TRUE iff the call left the method by an exception
    sp_failed_at,      \* history: "none" | "construct" | "parse" | "split"
    sp_printed,        \* what the call wrote to standard output
    \* ---- LangChainLoader ----
    file_path,         \* self.file_path
    url,               \* self.url
    ld_op,             \* the loader method executed ("none" when idle)
    ld_pc,             \* "idle" | "done"
    ld_arg,            \* the file_path / directory_path / url argument of the call
    ld_exists,         \* history: whether the artifact named by ld_arg existed
    ld_parser,         \* history: what the delegated parser did (returned / raised)
    ld_parser_calls,   \* history: number of times the call ran the delegated parser
    ld_result,         \* the returned documents
    ld_raised,         \* the exception that left the method (NoException if none)
    ld_printed,        \* what the call wrote to standard output
    \* ---- the remote services (environment) ----
    indexes,           \* service A: the names of the existing indexes
    pc_vectors,        \* service A: the <<index, namespace>> pairs that hold vectors
    collections,       \* service B: the names of the existing collections
    qd_points,         \* service B: the collections that hold points
    \* ---- PineconeInsertRetrieval / QdrantInsertRetrievalAll ----
    pc_api_key,        \* PineconeInsertRetrieval.api_key
    qd_api_key,        \* QdrantInsertRetrievalAll.api_key
    qd_url,            \* QdrantInsertRetrievalAll.url
    st_op,             \* the adapter method executed ("none" when idle)
    st_pc,             \* "idle" | "listed" | "done"
    st_name,           \* the index / collection name argument
    st_ns,             \* the namespace argument ("" when the method has none)
    st_emb,            \* the embeddings argument ("" when the method has none)
    st_listed,         \* delete_index_name: the local variable indexes
    st_response,       \* delete_name_spaces: the local variable response ("" when unset)
    st_existed,        \* history: the name existed when the call queried the service
    st_failure,        \* history: the exception the client raised in the call ("none")
    st_accepted,       \* history: the service accepted the call's create/delete/upsert
    st_outcome,        \* how the call ended: a returned value or a raised exception
    st_printed         \* what the call wrote to standard output

sp_vars == <<docs, sp_op, sp_pc, headers, doc_index, all_chunked_docs, origin,
             split_memo, sp_result, sp_raised, sp_failed_at, sp_printed>>

ld_vars == <<file_path, url, ld_op, ld_pc, ld_arg, ld_exists, ld_parser, ld_parser_calls,
             ld_result, ld_raised, ld_printed>>

svc_vars == <<indexes, pc_vectors, collections, qd_points>>

st_vars == <<pc_api_key, qd_api_key, qd_url, st_op, st_pc, st_name, st_ns, st_emb, st_listed, st_response,
             st_existed, st_failure, st_accepted, st_outcome, st_printed>>

vars == <<sp_vars, ld_vars, svc_vars, st_vars>>

-----------------------------------------------------------------------------
(* Bounds *)

MaxDocs == 2
MaxChunks == 2
MaxPages == 2

-----------------------------------------------------------------------------
(* Python values *)

\* Python compares 1 and "1" unequal: metadata values carry their type.
IntV(n) == <<"int", n>>
StrV(s) == <<"str", s>>

EmptyDict == [k \in {} |-> StrV("")]

\* {**a, **b}: the keys of b override those of a.
DictMerge(a, b) == [k \in (DOMAIN a) \cup (DOMAIN b) |-> IF k \in DOMAIN b THEN b[k] ELSE a[k]]

Document(page_content, metadata) == [page_content |-> page_content, metadata |-> metadata]

\* A page_content that is not a string (None): parsing and splitting raise on it.
NoneContent == "<None>"

\* The parsed element tree of a page, in document order (BeautifulSoup).
Elements(page_content) ==
    CASE page_content = "html_a" ->
            << [tag |-> "h2", text |-> "x"], [tag |-> "h1", text |-> "y"],
               [tag |-> "h1", text |-> "z"] >>
      [] page_content = "html_b" ->
            << [tag |-> "p", text |-> "y"], [tag |-> "h1", text |-> "x"] >>
      [] OTHER -> << >>

Documents ==
    { Document("html_a", "source" :> StrV("a.html")),
      Document("html_b", ("source" :> StrV("b.html")) @@ ("chunkno" :> StrV("1-1"))
                           @@ ("header_type" :> StrV("h1"))),
      Document("txt", ("source" :> StrV("t.txt")) @@ ("chunkno" :> IntV(3))),
      Document("txt", EmptyDict),
      Document(NoneContent, "source" :> StrV("n")) }

DocLists == UNION { [1..n -> Documents] : n \in 0..MaxDocs }

HeaderLists == { <<"h1", "h2">>, <<"h1", "h2", "h3", "p">>, <<"h2", "h1", "h2">> }

\* What one split_text call can do: raise, or return n chunks.
SplitOutcomes == { [raises |-> TRUE, n |-> 0] } \cup { [raises |-> FALSE, n |-> n] : n \in 0..MaxChunks }

\* The n-th chunk the delegated splitter cut out of text.
Piece(text, n) == <<text, n>>

TextOps == {"recursive_text_splitter", "character_text_splitter"}

-----------------------------------------------------------------------------
(* LangchainSplitters: src/splitters.py *)

\* RecursiveCharacterTextSplitter(...) / CharacterTextSplitter(...): the library's
\* constructor raises ValueError when chunk_overlap > chunk_size.
ConstructorRaises(chunk_size, chunk_overlap) == chunk_overlap > chunk_size

\* The texts a call hands to split_text for which it has no answer yet get one.
MemoExtensions(memo, texts) ==
    { f @@ memo : f \in [texts \ DOMAIN memo -> SplitOutcomes] }

\* metadata={**doc.metadata, "chunkno": idx + 1}
chunkno_text_Bug(idx) == idx
chunkno_text(idx) == idx + 1

text_metadata_Bug(doc, idx) == "chunkno" :> IntV(chunkno_text(idx))
text_metadata(doc, idx) == DictMerge(doc.metadata, "chunkno" :> IntV(chunkno_text(idx)))

\* chunked_docs = [Document(page_content=chunk, metadata=...) for idx, chunk in enumerate(splits)]
\* splits is the list Piece(text, 1), ..., Piece(text, n); idx is 0-based.
text_chunked_docs(doc, n) ==
    [ i \in 1..n |-> Document(Piece(doc.page_content, i), text_metadata(doc, i - 1)) ]

text_origin(d, n) == [ i \in 1..n |-> [doc |-> d, tagpos |-> 0, elem |-> 0] ]

\* soup.find_all(header_tag): the indices of the matching elements, in document order.
find_all(page_content, header_tag) ==
    LET els == Elements(page_content)
    IN  SelectSeq([ e \in 1..Len(els) |-> e ], LAMBDA e : els[e].tag = header_tag)

\* sections = [(header_tag, element.get_text()) for header_tag in headers_to_split_on
\*             for element in soup.find_all(header_tag)]
\* tagpos and elem record which listing and which element a section came from.
RECURSIVE sections_from(_, _, _)
sections_from(page_content, headers_to_split_on, p) ==
    IF p > Len(headers_to_split_on) THEN << >>
    ELSE LET found == find_all(page_content, headers_to_split_on[p])
         IN  [ k \in 1..Len(found) |->
                 [ header |-> headers_to_split_on[p],
                   text   |-> Elements(page_content)[found[k]].text,
                   tagpos |-> p,
                   elem   |-> found[k] ] ]
             \o sections_from(page_content, headers_to_split_on, p + 1)

\* The same elements, enumerated in document order instead.
sections_Bug(page_content, headers_to_split_on) ==
    LET els == Elements(page_content)
        all == sections_from(page_content, headers_to_split_on, 1)
        byElem(e) == SelectSeq(all, LAMBDA s : s.elem = e)
        F[e \in 0..Len(els)] == IF e = 0 THEN << >> ELSE F[e - 1] \o byElem(e)
    IN  F[Len(els)]

sections(page_content, headers_to_split_on) ==
    sections_from(page_content, headers_to_split_on, 1)

\* "chunkno": f"{idx+1}-{chunk_idx+1}"
chunkno_html_Bug(idx, chunk_idx) == ToString(idx) \o "-" \o ToString(chunk_idx)
chunkno_html(idx, chunk_idx) == ToString(idx + 1) \o "-" \o ToString(chunk_idx + 1)

html_metadata(doc, idx, chunk_idx, header) ==
    DictMerge(doc.metadata,
              ("chunkno" :> StrV(chunkno_html(idx, chunk_idx))) @@ ("header_type" :> StrV(header)))

\* for idx, (header, text) in enumerate(sections):
\*     chunks = section_splitter.split_text(text)
\*     for chunk_idx, chunk in enumerate(chunks): chunked_docs.append(Document(...))
RECURSIVE html_chunked_docs(_, _, _, _)
html_chunked_docs(doc, secs, i, memo) ==
    IF i > Len(secs) THEN << >>
    ELSE [ j \in 1..memo[secs[i].text].n |->
             Document(Piece(secs[i].text, j), html_metadata(doc, i - 1, j - 1, secs[i].header)) ]
         \o html_chunked_docs(doc, secs, i + 1, memo)

RECURSIVE html_origin(_, _, _, _)
html_origin(d, secs, i, memo) ==
    IF i > Len(secs) THEN << >>
    ELSE [ j \in 1..memo[secs[i].text].n |->
             [doc |-> d, tagpos |-> secs[i].tagpos, elem |-> secs[i].elem] ]
         \o html_origin(d, secs, i + 1, memo)

\* all_chunked_docs.extend(chunked_docs)
extend_Bug(list, chunked_docs) == chunked_docs
extend(list, chunked_docs) == list \o chunked_docs

\* except Exception as e: print(...); return []
ExceptResult_Bug(partial) == partial
ExceptResult(partial) == << >>

SplitterFails(where, e) ==
    /\ sp_pc' = "done"
    /\ sp_result' = ExceptResult(all_chunked_docs)
    /\ sp_raised' = FALSE
    /\ sp_failed_at' = where
    /\ sp_printed' = Append(sp_printed, "Error in " \o sp_op \o ": " \o e)

\* Entry of a splitter method, up to the start of the loop over self.docs.
SplitterCall(o, hs, chunk_size, chunk_overlap) ==
    /\ sp_pc = "idle"
    /\ ld_pc = "idle" /\ st_pc = "idle"
    /\ sp_op' = o
    /\ headers' = hs
    /\ doc_index' = 0
    /\ all_chunked_docs' = << >>
    /\ origin' = << >>
    /\ split_memo' = << >>
    /\ UNCHANGED <<docs, ld_vars, svc_vars, st_vars>>
    /\ IF ConstructorRaises(chunk_size, chunk_overlap)
       THEN /\ sp_pc' = "done"
            /\ sp_result' = ExceptResult(<< >>)
            /\ sp_raised' = FALSE
            /\ sp_failed_at' = "construct"
            /\ sp_printed' = << "Error in " \o o \o ": ValueError" >>
       ELSE /\ sp_pc' = "loop"
            /\ UNCHANGED <<sp_result, sp_raised, sp_failed_at>>
            /\ sp_printed' = << >>

html_splitter ==
    \E hs \in HeaderLists, chunk_size \in {1, 2}, chunk_overlap \in {0, 2} :
        SplitterCall("html_splitter", hs, chunk_size, chunk_overlap)

recursive_text_splitter ==
    \E chunk_size \in {1, 2}, chunk_overlap \in {0, 2} :
        SplitterCall("recursive_text_splitter", << >>, chunk_size, chunk_overlap)

character_text_splitter ==
    \E chunk_size \in {1, 2}, chunk_overlap \in {0, 2} :
        SplitterCall("character_text_splitter", << >>, chunk_size, chunk_overlap)

\* One iteration of "for doc_index, doc in enumerate(self.docs)" in html_splitter.
html_splitter_loop ==
    /\ sp_pc = "loop" /\ sp_op = "html_splitter"
    /\ doc_index < Len(docs)
    /\ UNCHANGED <<ld_vars, svc_vars, st_vars>>
    /\ LET d    == doc_index + 1
           doc  == docs[d]
           secs == sections(doc.page_content, headers)
       IN  IF doc.page_content = NoneContent
           THEN \* BeautifulSoup(None, "html.parser") raises TypeError
                /\ SplitterFails("parse", "TypeError")
                /\ UNCHANGED <<docs, sp_op, headers, doc_index, all_chunked_docs, origin, split_memo>>
           ELSE \E memo \in MemoExtensions(split_memo, { secs[i].text : i \in 1..Len(secs) }) :
                /\ split_memo' = memo
                /\ IF \E i \in 1..Len(secs) : memo[secs[i].text].raises
                   THEN /\ SplitterFails("split", "SplitError")
                        /\ UNCHANGED <<docs, sp_op, headers, doc_index, all_chunked_docs, origin>>
                   ELSE /\ all_chunked_docs' = extend(all_chunked_docs, html_chunked_docs(doc, secs, 1, memo))
                        /\ origin' = origin \o html_origin(d, secs, 1, memo)
                        /\ doc_index' = d
                        /\ UNCHANGED <<docs, sp_op, sp_pc, headers, sp_result, sp_raised,
                                       sp_failed_at, sp_printed>>

\* One iteration of the loop of recursive_text_splitter / character_text_splitter.
TextSplitterLoop(o) ==
    /\ sp_pc = "loop" /\ sp_op = o
    /\ doc_index < Len(docs)
    /\ UNCHANGED <<ld_vars, svc_vars, st_vars>>
    /\ LET d   == doc_index + 1
           doc == docs[d]
       IN  IF doc.page_content = NoneContent
           THEN \* split_text(None) raises TypeError
                /\ SplitterFails("split", "TypeError")
                /\ UNCHANGED <<docs, sp_op, headers, doc_index, all_chunked_docs, origin, split_memo>>
           ELSE \E memo \in MemoExtensions(split_memo, { doc.page_content }) :
                /\ split_memo' = memo
                /\ IF memo[doc.page_content].raises
                   THEN /\ SplitterFails("split", "SplitError")
                        /\ UNCHANGED <<docs, sp_op, headers, doc_index, all_chunked_docs, origin>>
                   ELSE /\ all_chunked_docs' =
                              extend(all_chunked_docs, text_chunked_docs(doc, memo[doc.page_content].n))
                        /\ origin' = origin \o text_origin(d, memo[doc.page_content].n)
                        /\ doc_index' = d
                        /\ UNCHANGED <<docs, sp_op, sp_pc, headers, sp_result, sp_raised,
                                       sp_failed_at, sp_printed>>

recursive_text_splitter_loop == TextSplitterLoop("recursive_text_splitter")

character_text_splitter_loop == TextSplitterLoop("character_text_splitter")

\* return all_chunked_docs
SplitterReturn ==
    /\ sp_pc = "loop"
    /\ doc_index = Len(docs)
    /\ sp_pc' = "done"
    /\ sp_result' = all_chunked_docs
    /\ sp_raised' = FALSE
    /\ UNCHANGED <<docs, sp_op, headers, doc_index, all_chunked_docs, origin, split_memo,
                   sp_failed_at, sp_printed, ld_vars, svc_vars, st_vars>>

\* The caller has taken the result; the instance is ready for the next call.
SplitterIdle ==
    /\ sp_pc = "done"
    /\ sp_pc' = "idle"
    /\ sp_op' = "none"
    /\ headers' = << >>
    /\ doc_index' = 0
    /\ all_chunked_docs' = << >>
    /\ origin' = << >>
    /\ split_memo' = << >>
    /\ sp_result' = << >>
    /\ sp_raised' = FALSE
    /\ sp_failed_at' = "none"
    /\ sp_printed' = << >>
    /\ UNCHANGED <<docs, ld_vars, svc_vars, st_vars>>

SplitterNext ==
    \/ html_splitter
    \/ recursive_text_splitter
    \/ character_text_splitter
    \/ html_splitter_loop
    \/ recursive_text_splitter_loop
    \/ character_text_splitter_loop
    \/ SplitterReturn
    \/ SplitterIdle

-----------------------------------------------------------------------------
(* LangChainLoader: src/loaders.py *)

\* str(None), as the f-strings print self.file_path.
PyNone == "None"

LoaderOps ==
    { "load_as_textfile", "load_as_csv", "load_as_csv_with_source_column", "load_as_html",
      "load_as_json", "load_as_pdf", "load_with_pymupdf", "load_with_unstructuredpdf",
      "load_with_pypdfium2", "load_with_pdfminer", "load_directory_pdfs",
      "load_with_pdfplumber", "load_online_pdf", "fetch_data_from_url" }

\* The methods with an "except FileNotFoundError" clause before "except Exception".
HasNotFoundHandler(o) ==
    o \in { "load_as_textfile", "load_as_csv", "load_as_csv_with_source_column",
            "load_as_html", "load_as_json", "load_as_pdf" }

LoaderArgs == { "a", "b" }

NoException == [cls |-> "none", cause |-> "none"]

\* What the delegated parser (loader.load() / load_and_split()) can do.  For a
\* missing artifact it raises; the class is the library's choice: FileNotFoundError
\* itself or a wrapper of it.
ParserReturns(arg) ==
    { [kind |-> "return", exc |-> NoException,
       documents |-> [ i \in 1..n |-> Document(<<arg, i>>, "source" :> StrV(arg)) ]] :
      n \in 0..MaxPages }

ParserRaises(exists) ==
    { [kind |-> "raise", exc |-> [cls |-> c, cause |-> k], documents |-> << >>] :
      c \in {"FileNotFoundError", "Exception"},
      k \in IF exists THEN {"parse"} ELSE {"not_found"} }

ParserOutcomes(arg, exists) ==
    IF exists THEN ParserReturns(arg) \cup ParserRaises(exists) ELSE ParserRaises(exists)

\* The text of the print in the "except Exception as e" clause of each method.
LoadErrorText(o) ==
    CASE o = "load_as_textfile" -> "An error occurred while loading the text file: "
      [] o = "load_as_csv" -> "An error occurred while loading the CSV file: "
      [] o = "load_as_csv_with_source_column" ->
            "An error occurred while loading the CSV file with source column: "
      [] o = "load_as_html" -> "An error occurred while loading the HTML file: "
      [] o = "load_as_json" -> "An error occurred while loading the JSON file: "
      [] o = "load_as_pdf" -> "An error occurred while loading the PDF file: "
      [] o = "load_with_pymupdf" -> "An error occurred while loading the PDF with PyMuPDFLoader: "
      [] o = "load_with_unstructuredpdf" ->
            "An error occurred while loading the PDF with UnstructuredPDFLoader: "
      [] o = "load_with_pypdfium2" -> "An error occurred while loading the PDF with PyPDFium2Loader: "
      [] o = "load_with_pdfminer" -> "An error occurred while loading the PDF with PDFMinerLoader: "
      [] o = "load_directory_pdfs" -> "An error occurred while loading PDFs from directory: "
      [] o = "load_with_pdfplumber" -> "An error occurred while loading the PDF with PDFPlumberLoader: "
      [] o = "load_online_pdf" -> "An error occurred while loading the online PDF: "
      [] OTHER -> "An error occurred while fetching data from the URL: "

\* The print of the except clause that catches exception e in method o.
LoaderPrint(o, e, self_file_path) ==
    IF HasNotFoundHandler(o) /\ e.cls = "FileNotFoundError"
    THEN IF o = "load_as_csv_with_source_column"
         THEN "Error: " \o e.cause
         ELSE "Error: The file '" \o self_file_path \o "' was not found."
    ELSE LoadErrorText(o) \o e.cause

\* "raise fnf_error" / "raise": the caught exception leaves the method.
Reraise_Bug(e) == [raised |-> NoException, result |-> << >>]
Reraise(e) == [raised |-> e, result |-> << >>]

\* "return documents"
ReturnDocuments(documents) == [raised |-> NoException, result |-> documents]

\* except ... as e: print(f"...{e}") -- the line goes to standard output.
except_print_Bug(line) == << >>
except_print(line) == << line >>

\* No loader method assigns self.file_path or self.url: the fields after a call.
loader_fields_Bug(self_file_path, self_url, arg) == << arg, self_url >>
loader_fields(self_file_path, self_url, arg) == << self_file_path, self_url >>

\* One call of a loader method: try: loader = X(arg); documents = loader.load();
\* return documents; except ...: print(...); raise
LoaderCall(o, arg, exists, parser) ==
    /\ ld_pc = "idle"
    /\ sp_pc = "idle" /\ st_pc = "idle"
    /\ ld_pc' = "done"
    /\ ld_op' = o
    /\ ld_arg' = arg
    /\ ld_exists' = exists
    /\ ld_parser' = parser
    /\ ld_parser_calls' = 1
    /\ LET out == IF parser.kind = "return" THEN ReturnDocuments(parser.documents)
                  ELSE Reraise(parser.exc)
       IN  /\ ld_result' = out.result
           /\ ld_raised' = out.raised
    /\ ld_printed' = IF parser.kind = "return" THEN << >>
                     ELSE except_print(LoaderPrint(o, parser.exc, file_path))
    /\ file_path' = loader_fields(file_path, url, arg)[1]
    /\ url' = loader_fields(file_path, url, arg)[2]
    /\ UNCHANGED <<sp_vars, svc_vars, st_vars>>

Load ==
    \E o \in LoaderOps, arg \in LoaderArgs, exists \in BOOLEAN :
        \E parser \in ParserOutcomes(arg, exists) : LoaderCall(o, arg, exists, parser)

NoParser == [kind |-> "none", exc |-> NoException, documents |-> << >>]

\* The caller has the outcome; the instance is ready for the next call.
LoaderIdle ==
    /\ ld_pc = "done"
    /\ ld_pc' = "idle"
    /\ ld_op' = "none"
    /\ ld_arg' = "none"
    /\ ld_exists' = FALSE
    /\ ld_parser' = NoParser
    /\ ld_parser_calls' = 0
    /\ ld_result' = << >>
    /\ ld_raised' = NoException
    /\ ld_printed' = << >>
    /\ UNCHANGED <<file_path, url, sp_vars, svc_vars, st_vars>>

LoaderNext ==
    \/ Load
    \/ LoaderIdle

-----------------------------------------------------------------------------
(* The remote services and their clients (environment) *)

IndexNames == { "i1", "i2" }
CollectionNames == { "c1", "c2" }
\* "" is the default namespace of an index (no namespace argument).
Namespaces == { "", "ns1" }
Embeddings == { "emb1", "emb2" }

NoneV == << "none" >>

\* The vector store object the langchain classes hand back.
Handle(cls, name, namespace, embeddings) ==
    << "store", [cls |-> cls, name |-> name, namespace |-> namespace, embedding |-> embeddings] >>

Return(value) == [kind |-> "return", value |-> value]
Raise(ex) == [kind |-> "raise", value |-> << "exc", ex >>]
NoOutcome == [kind |-> "none", value |-> NoneV]

\* Any remote call, and the construction of the client, can fail.
ClientFailures == { "Unavailable" }

\* pc.list_indexes().names(): the listing, or an exception.
ListIndexesAnswers ==
    { [exc |-> "none", names |-> indexes] } \cup { [exc |-> e, names |-> {}] : e \in ClientFailures }

\* pc.create_index(name=...): the service refuses a name that exists.
CreateIndexAnswers(name) ==
    (IF name \in indexes THEN { "Conflict" } ELSE { "none" }) \cup ClientFailures

\* pc.delete_index(name): the service refuses a name that does not exist.
DeleteIndexAnswers(name) ==
    (IF name \in indexes THEN { "none" } ELSE { "NotFound" }) \cup ClientFailures

\* pc.Index(name).delete(namespace=..., delete_all=True): an exception, the empty
\* mapping, or some other response.
DeleteNamespaceAnswers(name, namespace) ==
    (IF name \in indexes
     THEN { [exc |-> "none", response |-> "{}"], [exc |-> "none", response |-> "{'code': 5}"] }
          \cup (IF <<name, namespace>> \in pc_vectors THEN {}
                ELSE { [exc |-> "NotFound", response |-> ""] })
     ELSE { [exc |-> "NotFound", response |-> ""] })
    \cup { [exc |-> e, response |-> ""] : e \in ClientFailures }

\* PineconeVectorStore.from_documents / from_existing_index need the index.
IndexUseAnswers(name) ==
    (IF name \in indexes THEN { "none" } ELSE { "NotFound" }) \cup ClientFailures

\* QdrantVectorStore.from_documents creates the collection when it is missing.
QdrantInsertAnswers == { "none" } \cup ClientFailures

\* QdrantClient(url=..., api_key=...): no request is sent; construction can fail.
QdrantClientAnswers == { "none", "ClientError" }

\* qdrant_client.delete_collection(name): no error for a missing collection.
QdrantDeleteAnswers == { "none" } \cup ClientFailures

\* qdrant_client.create_collection(name, ...): refuses a name that exists.
QdrantCreateAnswers(name) ==
    (IF name \in collections THEN { "Conflict" } ELSE { "none" }) \cup ClientFailures

\* Another client of service A creates or deletes an index.
OtherClientCreatesIndex ==
    /\ \E n \in IndexNames \ indexes : indexes' = indexes \cup {n}
    /\ UNCHANGED <<pc_vectors, collections, qd_points, sp_vars, ld_vars, st_vars>>

OtherClientDeletesIndex ==
    /\ \E n \in indexes :
          /\ indexes' = indexes \ {n}
          /\ pc_vectors' = { v \in pc_vectors : v[1] # n }
    /\ UNCHANGED <<collections, qd_points, sp_vars, ld_vars, st_vars>>

-----------------------------------------------------------------------------
(* PineconeInsertRetrieval: src/pinecon.py *)

\* The start of an adapter call: the arguments and the history of the call.
Begin(o, name, namespace, embeddings, existed, failure) ==
    /\ st_pc = "idle"
    /\ sp_pc = "idle" /\ ld_pc = "idle"
    /\ st_op' = o
    /\ st_name' = name
    /\ st_ns' = namespace
    /\ st_emb' = embeddings
    /\ st_existed' = existed
    /\ st_failure' = failure
    /\ UNCHANGED <<pc_api_key, qd_api_key, qd_url, sp_vars, ld_vars>>

\* An exception of the client leaves a method that has no try block.
Unhandled_Bug(ex) == Return(StrV("Error: " \o ex))
Unhandled(ex) == Raise(ex)

\* if index not in indexes: return "Not Found index"
\* elif index in indexes: return f"Your index name {index} Found"
check_index_result(index, names) ==
    IF index \notin names THEN "Not Found index" ELSE "Your index name " \o index \o " Found"

check_index ==
    \E index \in IndexNames, a \in ListIndexesAnswers :
        /\ Begin("check_index", index, "", "", index \in indexes, a.exc)
        /\ st_pc' = "done"
        /\ st_outcome' = IF a.exc # "none" THEN Unhandled(a.exc)
                         ELSE Return(StrV(check_index_result(index, a.names)))
        /\ st_printed' = << >>
        /\ UNCHANGED <<svc_vars, st_listed, st_response, st_accepted>>

\* except Exception as ex: return f"Sorry, try again. {ex}"
create_index_except_Bug(index_name, ex) == Return(StrV(index_name))
create_index_except(index_name, ex) == Return(StrV("Sorry, try again. " \o ex))

create_index ==
    \E index_name \in IndexNames :
        \E ex \in CreateIndexAnswers(index_name) :
            /\ Begin("create_index", index_name, "", "", index_name \in indexes, ex)
            /\ st_pc' = "done"
            /\ IF ex = "none"
               THEN /\ indexes' = indexes \cup {index_name}
                    /\ st_accepted' = TRUE
                    /\ st_printed' = << "Your index " \o index_name \o " created successfully" >>
                    /\ st_outcome' = Return(StrV(index_name))
               ELSE /\ indexes' = indexes
                    /\ st_accepted' = FALSE
                    /\ st_printed' = << >>
                    /\ st_outcome' = create_index_except(index_name, ex)
            /\ UNCHANGED <<pc_vectors, collections, qd_points, st_listed, st_response>>

\* if index_name not in indexes: return f"Index '{index_name}' does not exist."
delete_index_missing_Bug(index_name) ==
    Return(StrV("Index '" \o index_name \o "' deleted successfully."))
delete_index_missing(index_name) == Return(StrV("Index '" \o index_name \o "' does not exist."))

\* return f"Index '{index_name}' deleted successfully."
delete_index_deleted(index_name) ==
    Return(StrV("Index '" \o index_name \o "' deleted successfully."))

\* except Exception as ex: return f"Failed to delete index '{index_name}': {ex}"
delete_index_except_Bug(index_name, ex) ==
    Return(StrV("Index '" \o index_name \o "' deleted successfully."))

delete_index_except(index_name, ex) ==
    Return(StrV("Failed to delete index '" \o index_name \o "': " \o ex))

\* delete_index_name up to and including the membership test on the listing.
delete_index_name ==
    \E index_name \in IndexNames, a \in ListIndexesAnswers :
        /\ Begin("delete_index_name", index_name, "", "", index_name \in indexes, a.exc)
        /\ st_listed' = a.names
        /\ st_printed' = << >>
        /\ st_accepted' = FALSE
        /\ IF a.exc # "none"
           THEN /\ st_pc' = "done"
                /\ st_outcome' = delete_index_except(index_name, a.exc)
           ELSE IF index_name \notin a.names
           THEN /\ st_pc' = "done"
                /\ st_outcome' = delete_index_missing(index_name)
           ELSE /\ st_pc' = "listed"
                /\ st_outcome' = NoOutcome
        /\ UNCHANGED <<svc_vars, st_response>>

\* pc.delete_index(index_name) and the return after it.
delete_index_name_delete ==
    /\ st_pc = "listed"
    /\ \E ex \in DeleteIndexAnswers(st_name) :
          /\ st_failure' = ex
          /\ IF ex = "none"
             THEN /\ indexes' = indexes \ {st_name}
                  /\ pc_vectors' = { v \in pc_vectors : v[1] # st_name }
                  /\ st_accepted' = TRUE
                  /\ st_outcome' = delete_index_deleted(st_name)
             ELSE /\ UNCHANGED <<indexes, pc_vectors>>
                  /\ st_accepted' = FALSE
                  /\ st_outcome' = delete_index_except(st_name, ex)
    /\ st_pc' = "done"
    /\ UNCHANGED <<collections, qd_points, pc_api_key, qd_api_key, qd_url, st_op, st_name, st_ns,
                   st_emb, st_listed, st_response, st_existed, st_printed, sp_vars, ld_vars>>

\* response = index.delete(namespace=name_space, delete_all=True)
\* if response == {}: return "Namespace ... deleted successfully ..."
\* else: return "Unexpected response: ..."; except Exception: return "An error occurred ..."
delete_name_spaces_result_Bug(index_name, name_space, exc, response) ==
    IF exc # "none"
    THEN Return(StrV("An error occurred: Failed to delete Namespace"))
    ELSE Return(StrV("Namespace '" \o name_space
                     \o "' deleted successfully from index '" \o index_name \o "'."))

delete_name_spaces_result(index_name, name_space, exc, response) ==
    IF exc # "none"
    THEN Return(StrV("An error occurred: Failed to delete Namespace"))
    ELSE IF response = "{}"
    THEN Return(StrV("Namespace '" \o name_space
                     \o "' deleted successfully from index '" \o index_name \o "'."))
    ELSE Return(StrV("Unexpected response: " \o response))

delete_name_spaces ==
    \E index_name \in IndexNames, name_space \in Namespaces :
        \E a \in DeleteNamespaceAnswers(index_name, name_space) :
            /\ Begin("delete_name_spaces", index_name, name_space, "",
                     <<index_name, name_space>> \in pc_vectors, a.exc)
            /\ st_pc' = "done"
            /\ st_printed' = << >>
            /\ st_response' = a.response
            /\ st_outcome' = delete_name_spaces_result(index_name, name_space, a.exc, a.response)
            /\ st_accepted' = (a.exc = "none" /\ a.response = "{}")
            /\ pc_vectors' = IF a.exc = "none" /\ a.response = "{}"
                             THEN pc_vectors \ { <<index_name, name_space>> }
                             ELSE pc_vectors
            /\ UNCHANGED <<indexes, collections, qd_points, st_listed>>

insert_data_in_namespace ==
    \E embeddings \in Embeddings, index_name \in IndexNames, name_space \in Namespaces \ {""} :
        \E ex \in IndexUseAnswers(index_name) :
            /\ Begin("insert_data_in_namespace", index_name, name_space, embeddings,
                     index_name \in indexes, ex)
            /\ st_pc' = "done"
            /\ IF ex = "none"
               THEN /\ pc_vectors' = pc_vectors \cup { <<index_name, name_space>> }
                    /\ st_accepted' = TRUE
                    /\ st_printed' = << "Your Namespace " \o name_space \o " is created successfully" >>
                    /\ st_outcome' = Return(Handle("PineconeVectorStore", index_name, name_space, embeddings))
               ELSE /\ UNCHANGED pc_vectors
                    /\ st_accepted' = FALSE
                    /\ st_printed' = << >>
                    /\ st_outcome' = Return(StrV("Failed to create namespace: " \o ex))
            /\ UNCHANGED <<indexes, collections, qd_points, st_listed, st_response>>

\* The try block ends after the print: the method returns None.
insert_data_in_index ==
    \E embeddings \in Embeddings, index_name \in IndexNames :
        \E ex \in IndexUseAnswers(index_name) :
            /\ Begin("insert_data_in_index", index_name, "", embeddings, index_name \in indexes, ex)
            /\ st_pc' = "done"
            /\ IF ex = "none"
               THEN /\ pc_vectors' = pc_vectors \cup { <<index_name, "">> }
                    /\ st_accepted' = TRUE
                    /\ st_printed' = << "Your data inserted into " \o index_name \o " successfully" >>
                    /\ st_outcome' = Return(NoneV)
               ELSE /\ UNCHANGED pc_vectors
                    /\ st_accepted' = FALSE
                    /\ st_printed' = << >>
                    /\ st_outcome' = Return(StrV("Failed to insert data into index: " \o ex))
            /\ UNCHANGED <<indexes, collections, qd_points, st_listed, st_response>>

\* retrieve_from_index_name / retrieve_from_namespace
\* PineconeVectorStore.from_existing_index(embedding=embeddings,
\*     index_name=index_name[, namespace=name_space]); return vectorstore
retrieve_handle_Bug(index_name, embeddings, name_space) ==
    Handle("PineconeVectorStore", index_name, "", embeddings)

retrieve_handle(index_name, embeddings, name_space) ==
    Handle("PineconeVectorStore", index_name, name_space, embeddings)

PineconeRetrieve(o, index_name, embeddings, name_space) ==
    \E ex \in IndexUseAnswers(index_name) :
        /\ Begin(o, index_name, name_space, embeddings, index_name \in indexes, ex)
        /\ st_pc' = "done"
        /\ st_printed' = << >>
        /\ st_outcome' = IF ex = "none"
                         THEN Return(retrieve_handle(index_name, embeddings, name_space))
                         ELSE Return(StrV("Failed to load VectorStore: " \o ex))
        /\ UNCHANGED <<svc_vars, st_listed, st_response, st_accepted>>

retrieve_from_index_name ==
    \E index_name \in IndexNames, embeddings \in Embeddings :
        PineconeRetrieve("retrieve_from_index_name", index_name, embeddings, "")

retrieve_from_namespace ==
    \E index_name \in IndexNames, embeddings \in Embeddings, name_space \in Namespaces \ {""} :
        PineconeRetrieve("retrieve_from_namespace", index_name, embeddings, name_space)

-----------------------------------------------------------------------------
(* QdrantInsertRetrievalAll: src/qdrant.py (no method has a try block) *)

insertion ==
    \E embeddings \in Embeddings, collection_name \in CollectionNames, ex \in QdrantInsertAnswers :
        /\ Begin("insertion", collection_name, "", embeddings, collection_name \in collections, ex)
        /\ st_pc' = "done"
        /\ IF ex = "none"
           THEN /\ collections' = collections \cup {collection_name}
                /\ qd_points' = qd_points \cup {collection_name}
                /\ st_accepted' = TRUE
                /\ st_printed' = << "Insertion successful" >>
                /\ st_outcome' = Return(Handle("QdrantVectorStore", collection_name, "", embeddings))
           ELSE /\ UNCHANGED <<collections, qd_points>>
                /\ st_accepted' = FALSE
                /\ st_printed' = << >>
                /\ st_outcome' = Unhandled(ex)
        /\ UNCHANGED <<indexes, pc_vectors, st_listed, st_response>>

retrieval ==
    \E collection_name \in CollectionNames, embeddings \in Embeddings, ex \in QdrantClientAnswers :
        /\ Begin("retrieval", collection_name, "", embeddings, collection_name \in collections, ex)
        /\ st_pc' = "done"
        /\ st_printed' = << >>
        /\ st_outcome' = IF ex = "none"
                         THEN Return(Handle("Qdrant", collection_name, "", embeddings))
                         ELSE Unhandled(ex)
        /\ UNCHANGED <<svc_vars, st_listed, st_response, st_accepted>>

\* qdrant_client.delete_collection(collection_name); return collection_name
delete_collection_return(collection_name) == Return(StrV(collection_name))

delete_collection ==
    \E collection_name \in CollectionNames, ex \in QdrantDeleteAnswers :
        /\ Begin("delete_collection", collection_name, "", "", collection_name \in collections, ex)
        /\ st_pc' = "done"
        /\ st_printed' = << >>
        /\ IF ex = "none"
           THEN /\ collections' = collections \ {collection_name}
                /\ qd_points' = qd_points \ {collection_name}
                /\ st_accepted' = TRUE
                /\ st_outcome' = delete_collection_return(collection_name)
           ELSE /\ UNCHANGED <<collections, qd_points>>
                /\ st_accepted' = FALSE
                /\ st_outcome' = Unhandled(ex)
        /\ UNCHANGED <<indexes, pc_vectors, st_listed, st_response>>

create_collection ==
    \E collection_name \in CollectionNames :
        \E ex \in QdrantCreateAnswers(collection_name) :
            /\ Begin("create_collection", collection_name, "", "", collection_name \in collections, ex)
            /\ st_pc' = "done"
            /\ IF ex = "none"
               THEN /\ collections' = collections \cup {collection_name}
                    /\ st_accepted' = TRUE
                    /\ st_printed' = << "Your collection " \o collection_name \o " created successfully" >>
                    /\ st_outcome' = Return(StrV(collection_name))
               ELSE /\ UNCHANGED collections
                    /\ st_accepted' = FALSE
                    /\ st_printed' = << >>
                    /\ st_outcome' = Unhandled(ex)
            /\ UNCHANGED <<indexes, pc_vectors, qd_points, st_listed, st_response>>

\* The caller has the outcome; the instance is ready for the next call.
AdapterIdle ==
    /\ st_pc = "done"
    /\ st_pc' = "idle"
    /\ st_op' = "none"
    /\ st_name' = ""
    /\ st_ns' = ""
    /\ st_emb' = ""
    /\ st_listed' = {}
    /\ st_response' = ""
    /\ st_existed' = FALSE
    /\ st_failure' = "none"
    /\ st_accepted' = FALSE
    /\ st_outcome' = NoOutcome
    /\ st_printed' = << >>
    /\ UNCHANGED <<pc_api_key, qd_api_key, qd_url, svc_vars, sp_vars, ld_vars>>

StoreNext ==
    \/ check_index
    \/ create_index
    \/ delete_index_name
    \/ delete_index_name_delete
    \/ delete_name_spaces
    \/ insert_data_in_namespace
    \/ insert_data_in_index
    \/ retrieve_from_index_name
    \/ retrieve_from_namespace
    \/ insertion
    \/ retrieval
    \/ delete_collection
    \/ create_collection
    \/ AdapterIdle
    \/ OtherClientCreatesIndex
    \/ OtherClientDeletesIndex

-----------------------------------------------------------------------------
(* Specifications: one per component with the other components unused, and
   one with all components in the hands of one caller *)

\* LangchainSplitters(docs), with docs any list of at most MaxDocs documents.
SplitterInit ==
    /\ docs \in DocLists
    /\ sp_op = "none" /\ sp_pc = "idle" /\ headers = << >> /\ doc_index = 0
    /\ all_chunked_docs = << >> /\ origin = << >> /\ split_memo = << >>
    /\ sp_result = << >> /\ sp_raised = FALSE /\ sp_failed_at = "none" /\ sp_printed = << >>
    /\ file_path = PyNone /\ url = PyNone
    /\ ld_op = "none" /\ ld_pc = "idle" /\ ld_arg = "none" /\ ld_exists = FALSE
    /\ ld_parser = NoParser /\ ld_parser_calls = 0
    /\ ld_result = << >> /\ ld_raised = NoException /\ ld_printed = << >>
    /\ indexes = {} /\ pc_vectors = {} /\ collections = {} /\ qd_points = {}
    /\ pc_api_key = "key_a" /\ qd_api_key = "key_b" /\ qd_url = "https://qdrant"
    /\ st_op = "none" /\ st_pc = "idle" /\ st_name = "" /\ st_ns = "" /\ st_emb = ""
    /\ st_listed = {} /\ st_response = "" /\ st_existed = FALSE /\ st_failure = "none" /\ st_accepted = FALSE
    /\ st_outcome = NoOutcome /\ st_printed = << >>

SpecSplitter == SplitterInit /\ [][SplitterNext]_vars

\* LangChainLoader(): self.file_path = None, self.url = None.
LoaderInit ==
    /\ docs = << >>
    /\ sp_op = "none" /\ sp_pc = "idle" /\ headers = << >> /\ doc_index = 0
    /\ all_chunked_docs = << >> /\ origin = << >> /\ split_memo = << >>
    /\ sp_result = << >> /\ sp_raised = FALSE /\ sp_failed_at = "none" /\ sp_printed = << >>
    /\ file_path = PyNone /\ url = PyNone
    /\ ld_op = "none" /\ ld_pc = "idle" /\ ld_arg = "none" /\ ld_exists = FALSE
    /\ ld_parser = NoParser /\ ld_parser_calls = 0
    /\ ld_result = << >> /\ ld_raised = NoException /\ ld_printed = << >>
    /\ indexes = {} /\ pc_vectors = {} /\ collections = {} /\ qd_points = {}
    /\ pc_api_key = "key_a" /\ qd_api_key = "key_b" /\ qd_url = "https://qdrant"
    /\ st_op = "none" /\ st_pc = "idle" /\ st_name = "" /\ st_ns = "" /\ st_emb = ""
    /\ st_listed = {} /\ st_response = "" /\ st_existed = FALSE /\ st_failure = "none" /\ st_accepted = FALSE
    /\ st_outcome = NoOutcome /\ st_printed = << >>

SpecLoader == LoaderInit /\ [][LoaderNext]_vars

\* PineconeInsertRetrieval(api_key), QdrantInsertRetrievalAll(api_key, url); both
\* services start empty.
StoreInit ==
    /\ docs = << >>
    /\ sp_op = "none" /\ sp_pc = "idle" /\ headers = << >> /\ doc_index = 0
    /\ all_chunked_docs = << >> /\ origin = << >> /\ split_memo = << >>
    /\ sp_result = << >> /\ sp_raised = FALSE /\ sp_failed_at = "none" /\ sp_printed = << >>
    /\ file_path = PyNone /\ url = PyNone
    /\ ld_op = "none" /\ ld_pc = "idle" /\ ld_arg = "none" /\ ld_exists = FALSE
    /\ ld_parser = NoParser /\ ld_parser_calls = 0
    /\ ld_result = << >> /\ ld_raised = NoException /\ ld_printed = << >>
    /\ indexes = {} /\ pc_vectors = {} /\ collections = {} /\ qd_points = {}
    /\ pc_api_key = "key_a" /\ qd_api_key = "key_b" /\ qd_url = "https://qdrant"
    /\ st_op = "none" /\ st_pc = "idle" /\ st_name = "" /\ st_ns = "" /\ st_emb = ""
    /\ st_listed = {} /\ st_response = "" /\ st_existed = FALSE /\ st_failure = "none" /\ st_accepted = FALSE
    /\ st_outcome = NoOutcome /\ st_printed = << >>

SpecStore == StoreInit /\ [][StoreNext]_vars

\* One caller holding an instance of every class: LangChainLoader(),
\* LangchainSplitters(docs) over one document (an HTML page or a plain text, with
\* metadata of its own), and the two adapters.  The caller makes one call at a
\* time; the other clients of service A do not wait.
CallerDocLists == { l \in DocLists : Len(l) = 1 /\ "chunkno" \in DOMAIN l[1].metadata }

AllInit ==
    /\ docs \in CallerDocLists
    /\ sp_op = "none" /\ sp_pc = "idle" /\ headers = << >> /\ doc_index = 0
    /\ all_chunked_docs = << >> /\ origin = << >> /\ split_memo = << >>
    /\ sp_result = << >> /\ sp_raised = FALSE /\ sp_failed_at = "none" /\ sp_printed = << >>
    /\ file_path = PyNone /\ url = PyNone
    /\ ld_op = "none" /\ ld_pc = "idle" /\ ld_arg = "none" /\ ld_exists = FALSE
    /\ ld_parser = NoParser /\ ld_parser_calls = 0
    /\ ld_result = << >> /\ ld_raised = NoException /\ ld_printed = << >>
    /\ indexes = {} /\ pc_vectors = {} /\ collections = {} /\ qd_points = {}
    /\ pc_api_key = "key_a" /\ qd_api_key = "key_b" /\ qd_url = "https://qdrant"
    /\ st_op = "none" /\ st_pc = "idle" /\ st_name = "" /\ st_ns = "" /\ st_emb = ""
    /\ st_listed = {} /\ st_response = "" /\ st_existed = FALSE /\ st_failure = "none" /\ st_accepted = FALSE
    /\ st_outcome = NoOutcome /\ st_printed = << >>

AllNext ==
    \/ html_splitter
    \/ recursive_text_splitter
    \/ character_text_splitter
    \/ html_splitter_loop
    \/ recursive_text_splitter_loop
    \/ character_text_splitter_loop
    \/ SplitterReturn
    \/ SplitterIdle
    \/ Load
    \/ LoaderIdle
    \/ check_index
    \/ create_index
    \/ delete_index_name
    \/ delete_index_name_delete
    \/ delete_name_spaces
    \/ insert_data_in_namespace
    \/ insert_data_in_index
    \/ retrieve_from_index_name
    \/ retrieve_from_namespace
    \/ insertion
    \/ retrieval
    \/ delete_collection
    \/ create_collection
    \/ AdapterIdle
    \/ OtherClientCreatesIndex
    \/ OtherClientDeletesIndex

SpecAll == AllInit /\ [][AllNext]_vars


-----------------------------------------------------------------------------
(* Properties of LangchainSplitters *)

\* The call returned through "return all_chunked_docs".
SplitterReturned == sp_pc = "done" /\ sp_failed_at = "none"

\* The positions of the result that came from source document d, in output order.
PositionsOf(d) ==
    SelectSeq([ p \in 1..Len(origin) |-> p ], LAMBDA p : origin[p].doc = d)

\* What split_text returned for source document d in a text splitter call.
DelegateReturned(d) ==
    [ m \in 1..split_memo[docs[d].page_content].n |-> Piece(docs[d].page_content, m) ]

\* C1: in recursive_text_splitter and character_text_splitter the chunks of each
\* source document appear in the order the delegate returned them and carry the
\* chunk numbers 1, 2, ..., k, restarting at 1 for each source document.
C1_ChunkNumbersRestartPerDocument ==
    (SplitterReturned /\ sp_op \in TextOps) =>
        /\ Len(origin) = Len(sp_result)
        /\ \A d \in 1..Len(docs) :
              LET at == PositionsOf(d)
                  ret == DelegateReturned(d)
              IN  /\ Len(at) = Len(ret)
                  /\ \A m \in 1..Len(at) :
                        /\ sp_result[at[m]].page_content = ret[m]
                        /\ sp_result[at[m]].metadata["chunkno"] = IntV(m)

C1_Witness ==
    /\ SplitterReturned /\ sp_op \in TextOps
    /\ Len(docs) = 2
    /\ Len(PositionsOf(1)) = 2
    /\ Len(PositionsOf(2)) = 2
    /\ sp_result[3].metadata["chunkno"] = IntV(1)

\* C2: in html_splitter every chunk derived from an earlier entry of the tag list
\* precedes every chunk of the same source document derived from a later entry,
\* wherever the elements stand in the document.
C2_EarlierTagPrecedesLaterTag ==
    (SplitterReturned /\ sp_op = "html_splitter") =>
        /\ Len(origin) = Len(sp_result)
        /\ \A p, q \in 1..Len(origin) :
              (origin[p].doc = origin[q].doc /\ origin[p].tagpos < origin[q].tagpos) => p < q

\* An element that stands later in the document is emitted first.
C2_Witness ==
    /\ SplitterReturned /\ sp_op = "html_splitter"
    /\ \E p, q \in 1..Len(origin) :
          /\ p < q
          /\ origin[p].doc = origin[q].doc
          /\ origin[p].tagpos < origin[q].tagpos
          /\ origin[p].elem > origin[q].elem

\* The 1-based place of (tagpos, elem) in the flattened tag-occurrence enumeration
\* of a page: all elements of the first listed tag, then of the second, ...
OccurrenceIndex(page_content, hs, tagpos, elem) ==
    Cardinality({ te \in (1..Len(hs)) \X (1..Len(Elements(page_content))) :
                    /\ Elements(page_content)[te[2]].tag = hs[te[1]]
                    /\ \/ te[1] < tagpos
                       \/ te[1] = tagpos /\ te[2] <= elem })

\* The 1-based place of output position p among the chunks of its own element.
ChunkIndex(p) ==
    Cardinality({ q \in 1..p : origin[q] = origin[p] })

\* C3: every chunk of html_splitter has header_type = the tag of its element and
\* chunkno "<i>-<j>", i the 1-based place of the element in the flattened
\* enumeration of its source document, j the 1-based place of the chunk among the
\* chunks of that element.
C3_HtmlChunkTags ==
    (SplitterReturned /\ sp_op = "html_splitter") =>
        /\ Len(origin) = Len(sp_result)
        /\ \A p \in 1..Len(sp_result) :
              LET o    == origin[p]
                  page == docs[o.doc].page_content
              IN  /\ sp_result[p].metadata["header_type"] = StrV(Elements(page)[o.elem].tag)
                  /\ sp_result[p].metadata["chunkno"] =
                        StrV(ToString(OccurrenceIndex(page, headers, o.tagpos, o.elem))
                             \o "-" \o ToString(ChunkIndex(p)))

C3_Witness ==
    /\ SplitterReturned /\ sp_op = "html_splitter"
    /\ \E p, q \in 1..Len(sp_result) :
          /\ origin[p].doc = 1 /\ sp_result[p].metadata["chunkno"] = StrV("2-2")
          /\ origin[q].doc = 2 /\ sp_result[q].metadata["chunkno"] = StrV("1-1")

\* C4: a splitter call in which an exception occurs (in the constructor, in the
\* HTML parse, in split_text of any document) does not raise and returns the
\* empty list: chunks made before the failure are not returned.
C4_ExceptionGivesEmptyList ==
    (sp_pc = "done" /\ sp_failed_at # "none") =>
        /\ sp_raised = FALSE
        /\ sp_result = << >>

C4_Witness ==
    /\ sp_pc = "done" /\ sp_failed_at = "split"
    /\ doc_index >= 1
    /\ all_chunked_docs # << >>
    /\ sp_result = << >>

\* The keys a splitter method writes into the metadata of a chunk.
AddedKeys(o) == IF o = "html_splitter" THEN {"chunkno", "header_type"} ELSE {"chunkno"}

\* C5 as stated: each chunk's metadata holds every source key with its original value.
C5_MetadataSuperset ==
    SplitterReturned =>
        /\ Len(origin) = Len(sp_result)
        /\ \A p \in 1..Len(sp_result) :
              \A k \in DOMAIN docs[origin[p].doc].metadata :
                  /\ k \in DOMAIN sp_result[p].metadata
                  /\ sp_result[p].metadata[k] = docs[origin[p].doc].metadata[k]

\* C5 (amended): each chunk's metadata holds every source key; a source key other
\* than the keys the method adds keeps its original value.
C5_MetadataSupersetExceptAddedKeys ==
    SplitterReturned =>
        /\ Len(origin) = Len(sp_result)
        /\ \A p \in 1..Len(sp_result) :
              /\ AddedKeys(sp_op) \subseteq DOMAIN sp_result[p].metadata
              /\ \A k \in DOMAIN docs[origin[p].doc].metadata :
                    /\ k \in DOMAIN sp_result[p].metadata
                    /\ k \notin AddedKeys(sp_op) =>
                          sp_result[p].metadata[k] = docs[origin[p].doc].metadata[k]

\* A source document that already has a chunkno was split: its value is replaced.
C5_Witness ==
    /\ SplitterReturned
    /\ \E p \in 1..Len(sp_result) :
          LET src == docs[origin[p].doc].metadata
          IN  /\ {"chunkno", "source"} \subseteq DOMAIN src
              /\ sp_result[p].metadata["chunkno"] # src["chunkno"]
              /\ sp_result[p].metadata["source"] = src["source"]

\* The chunk lists split_text returned for documents d..Len(docs), concatenated.
RECURSIVE DelegatedFrom(_)
DelegatedFrom(d) ==
    IF d > Len(docs) THEN << >> ELSE DelegateReturned(d) \o DelegatedFrom(d + 1)

RECURSIVE ChunkCountFrom(_)
ChunkCountFrom(d) ==
    IF d > Len(docs) THEN 0 ELSE split_memo[docs[d].page_content].n + ChunkCountFrom(d + 1)

\* C6: without an exception the output of the text splitters is exactly the
\* concatenation, in source-document order, of the chunk lists the delegate
\* returned: nothing dropped, duplicated or merged.
C6_OutputIsConcatenation ==
    (SplitterReturned /\ sp_op \in TextOps) =>
        /\ [ p \in 1..Len(sp_result) |-> sp_result[p].page_content ] = DelegatedFrom(1)
        /\ Len(sp_result) = ChunkCountFrom(1)

C6_Witness ==
    /\ SplitterReturned /\ sp_op \in TextOps
    /\ Len(docs) = 2
    /\ docs[1].page_content # docs[2].page_content
    /\ split_memo[docs[1].page_content].n = 2
    /\ split_memo[docs[2].page_content].n = 1
    /\ Len(sp_result) = 3

-----------------------------------------------------------------------------
(* Properties of LangChainLoader *)

\* C7: a loader call returns exactly the documents its parser produced, or fails
\* with the very exception the parser raised (a not-found failure when the
\* artifact is missing, with or without a FileNotFoundError clause); the parser
\* runs once and no failure is turned into a partial or empty result.
C7_LoaderReturnsAllOrPropagates ==
    ld_pc = "done" =>
        /\ ld_parser_calls = 1
        /\ ld_parser.kind = "return" =>
              /\ ld_raised = NoException
              /\ ld_result = ld_parser.documents
        /\ ld_parser.kind = "raise" =>
              /\ ld_raised = ld_parser.exc
              /\ ld_printed # << >>
        /\ ~ld_exists => ld_raised # NoException /\ ld_raised.cause = "not_found"

\* A missing file in a PDF variant without a FileNotFoundError clause.
C7_Witness ==
    /\ ld_pc = "done"
    /\ ld_op = "load_with_pymupdf"
    /\ ~ld_exists
    /\ ld_raised = [cls |-> "FileNotFoundError", cause |-> "not_found"]
    /\ ld_result = << >>

-----------------------------------------------------------------------------
(* Properties of the vector-store adapters *)

ReturnsString == st_outcome.kind = "return" /\ st_outcome.value[1] = "str"

\* C8 as stated: in every operation of both adapters a failure of the remote
\* service or client ends in a returned string, not in an exception.
C8_FailureReturnsString ==
    (st_pc = "done" /\ st_failure # "none") => ReturnsString

\* The methods of PineconeInsertRetrieval whose body is a try/except Exception.
HandlingOps ==
    { "create_index", "delete_index_name", "delete_name_spaces", "insert_data_in_namespace",
      "insert_data_in_index", "retrieve_from_index_name", "retrieve_from_namespace" }

\* C8 (amended): a failure of the remote service or client ends in a returned
\* string in the seven try/except methods of the service-A adapter; check_index
\* and the four methods of the service-B adapter raise the client's exception.
C8_FailureReturnsStringWhereHandled ==
    (st_pc = "done" /\ st_failure # "none") =>
        IF st_op \in HandlingOps THEN ReturnsString ELSE st_outcome = Raise(st_failure)

C8_Witness ==
    /\ st_pc = "done"
    /\ st_op = "insertion"
    /\ st_failure = "Unavailable"
    /\ st_outcome.kind = "raise"

\* C9: creating an index / collection whose name exists ends in an outcome other
\* than the success result (the name) and leaves the existing names unchanged.
C9_CreateExistingIsError ==
    [][ ( /\ st_pc = "idle" /\ st_pc' = "done"
          /\ st_op' \in {"create_index", "create_collection"}
          /\ st_existed' )
        => /\ st_outcome' # Return(StrV(st_name'))
           /\ st_failure' # "none"
           /\ indexes' = indexes
           /\ collections' = collections ]_vars

C9_Witness ==
    /\ st_pc = "done"
    /\ st_op = "create_index"
    /\ st_existed
    /\ st_name \in indexes
    /\ st_outcome = Return(StrV("Sorry, try again. Conflict"))

\* C10 as stated: deleting an index / collection that does not exist returns a
\* "does not exist" result: it neither raises nor reports the deletion done.
C10_DeleteMissingSaysDoesNotExist ==
    ( /\ st_pc = "done"
      /\ st_op \in {"delete_index_name", "delete_collection"}
      /\ ~st_existed
      /\ st_failure = "none" )
    => /\ st_outcome.kind = "return"
       /\ st_outcome # delete_index_deleted(st_name)
       /\ st_outcome # Return(StrV(st_name))

\* C10 (amended): delete_index_name returns "does not exist", without a delete
\* request, when its listing lacks the name, and removes the index and returns
\* "deleted successfully" when the service accepts its delete request;
\* delete_collection makes no check: when the client does not raise, the
\* collection is gone and the name is returned, existing before or not.
C10_DeleteChecksOnlyInServiceA ==
    /\ [] ( ( /\ st_pc = "done" /\ st_op = "delete_index_name"
              /\ st_failure = "none" /\ st_name \notin st_listed )
            => /\ st_outcome = Return(StrV("Index '" \o st_name \o "' does not exist."))
               /\ ~st_accepted )
    /\ [] ( (st_pc = "done" /\ st_op = "delete_index_name" /\ st_accepted)
            => st_outcome = Return(StrV("Index '" \o st_name \o "' deleted successfully.")) )
    /\ [] ( (st_pc = "done" /\ st_op = "delete_collection" /\ st_failure = "none")
            => st_outcome = Return(StrV(st_name)) )
    /\ [][ ( /\ st_pc' = "done" /\ st_pc # "done" /\ st_accepted'
             /\ st_op' \in {"delete_index_name", "delete_collection"} )
           => /\ st_name' \notin indexes'
              /\ st_name' \notin collections' ]_vars

\* A collection that did not exist was "deleted": the result is the success result.
C10_Witness ==
    /\ st_pc = "done"
    /\ st_op = "delete_collection"
    /\ ~st_existed
    /\ st_failure = "none"
    /\ st_outcome = Return(StrV(st_name))

InsertOps == { "insert_data_in_index", "insert_data_in_namespace", "insertion" }

\* C11: an insert operation whose upsert the service accepted returns a store
\* handle, and whatever an insert operation returns is a store handle or an
\* error string, never another kind of value such as None.
C11_InsertReturnsHandleOrString ==
    (st_pc = "done" /\ st_op \in InsertOps) =>
        /\ st_accepted => (st_outcome.kind = "return" /\ st_outcome.value[1] = "store")
        /\ st_outcome.kind = "return" => st_outcome.value[1] \in {"store", "str"}

RetrieveOps == { "retrieve_from_index_name", "retrieve_from_namespace", "retrieval" }

\* The store class a retrieve operation of each adapter builds.
RetrieveClass == IF st_op = "retrieval" THEN "Qdrant" ELSE "PineconeVectorStore"

\* Data was inserted under the name (and namespace) the retrieve call names.
InsertedThere ==
    IF st_op = "retrieval" THEN st_name \in qd_points ELSE <<st_name, st_ns>> \in pc_vectors

\* C12: a retrieve call on an index/collection (and namespace) that holds
\* inserted data returns, when the client does not fail, a store handle bound
\* to exactly the name, the namespace and the embedding function of the call,
\* and no retrieve call ever returns a handle bound to anything else.
C12_RetrieveBindsWhatWasInserted ==
    (st_pc = "done" /\ st_op \in RetrieveOps) =>
        /\ (InsertedThere /\ st_failure = "none") =>
               st_outcome = Return(Handle(RetrieveClass, st_name, st_ns, st_emb))
        /\ (st_outcome.kind = "return" /\ st_outcome.value[1] = "store") =>
               st_outcome.value = Handle(RetrieveClass, st_name, st_ns, st_emb)

C12_Witness ==
    /\ st_pc = "done"
    /\ st_op = "retrieve_from_namespace"
    /\ st_ns = "ns1"
    /\ <<st_name, st_ns>> \in pc_vectors
    /\ st_outcome = Return(Handle("PineconeVectorStore", st_name, "ns1", st_emb))

NamespaceDeleted(index_name, name_space) ==
    Return(StrV("Namespace '" \o name_space \o "' deleted successfully from index '"
                \o index_name \o "'."))

\* C15: namespace deletion takes no listing before its request, never raises,
\* returns the success message exactly when the request raised nothing and the
\* service's response is the empty mapping, and returns an error message for
\* every other response and for every exception; with no data under the
\* namespace the call still ends with the service's answer to the request.
C15_NamespaceDeletionReportsByResponse ==
    (st_pc = "done" /\ st_op = "delete_name_spaces") =>
        /\ st_listed = {}
        /\ st_outcome.kind = "return" /\ st_outcome.value[1] = "str"
        /\ (st_outcome = NamespaceDeleted(st_name, st_ns))
               <=> (st_failure = "none" /\ st_response = "{}")
        /\ st_failure # "none" =>
               st_outcome = Return(StrV("An error occurred: Failed to delete Namespace"))
        /\ (st_failure = "none" /\ st_response # "{}") =>
               st_outcome = Return(StrV("Unexpected response: " \o st_response))
        /\ ~st_existed => (st_failure # "none" \/ st_response # "")

C15_Witness ==
    /\ st_pc = "done"
    /\ st_op = "delete_name_spaces"
    /\ st_failure = "none"
    /\ st_response = "{'code': 5}"
    /\ st_outcome = Return(StrV("Unexpected response: {'code': 5}"))

\* C16: index deletion lists, then deletes. Whatever other clients do to the
\* index between the two requests, the operation never raises, it ends with
\* one of its three status strings, and it says "deleted successfully" only
\* when its own delete request was accepted, that is, when that request is
\* the one that removed the index.
C16_DeleteIndexSurvivesRace ==
    /\ [](st_op = "delete_index_name" => st_outcome.kind \in {"none", "return"})
    /\ []((st_pc = "done" /\ st_op = "delete_index_name") =>
            /\ st_outcome \in { delete_index_missing(st_name),
                                delete_index_deleted(st_name),
                                delete_index_except(st_name, st_failure) }
            /\ st_outcome = delete_index_deleted(st_name) =>
                   (st_accepted /\ st_failure = "none" /\ st_name \in st_listed))
    /\ [][(st_op = "delete_index_name" /\ st_pc = "listed" /\ st_pc' = "done"
           /\ st_outcome' = delete_index_deleted(st_name))
          => (st_name \in indexes /\ st_name \notin indexes')]_vars

\* Another client removed the index after the listing showed it.
C16_Witness ==
    /\ st_pc = "done"
    /\ st_op = "delete_index_name"
    /\ st_name \in st_listed
    /\ st_failure = "NotFound"
    /\ st_outcome = delete_index_except(st_name, "NotFound")

-----------------------------------------------------------------------------
(* Properties of all components together *)

\* How a call of each component shows its failure to the caller.
SplitterFailed == sp_pc = "done" /\ sp_failed_at # "none"
LoaderFailed == ld_pc = "done" /\ ld_raised # NoException
AdapterFailed ==
    /\ st_pc = "done"
    /\ \/ st_failure # "none"
       \/ st_op = "delete_name_spaces" /\ st_response # "{}"

\* C13 as stated: in every component, the adapters included, a failure that
\* reaches the caller has been printed to standard output.
C13_EveryFailureIsPrinted ==
    /\ SplitterFailed => sp_printed # << >>
    /\ LoaderFailed => ld_printed # << >>
    /\ AdapterFailed => st_printed # << >>

\* C13: a failing loader call and a failing splitter call have printed one
\* diagnostic line when the failure reaches the caller (raised again by the
\* loader, the empty list from the splitter); a failing call of either
\* vector-store adapter has printed nothing: the failure is only in the
\* returned string or in the exception.
C13_LoaderAndSplitterPrintAdaptersDoNot ==
    /\ SplitterFailed => (Len(sp_printed) = 1 /\ sp_result = << >>)
    /\ LoaderFailed => Len(ld_printed) = 1
    /\ AdapterFailed => st_printed = << >>

\* A loader failure with its line printed, after the adapters have been used.
C13_Witness ==
    /\ LoaderFailed
    /\ Len(ld_printed) = 1
    /\ indexes # {}

====
